---- MODULE Spec2Model ----
(***************************************************************************)
(* Model of camera-relay-systray.py: the tray indicator's event loop, its  *)
(* poll timers, the start/stop worker threads, the modal dialogs, and the  *)
(* module-level start-up (display check, single-instance lock).            *)
(*                                                                         *)
(* Spec      one indicator process after CameraRelaySystray.__init__       *)
(* SpecLock  two processes racing through the module-level start-up        *)
(* SpecPoll  one process from the constructor's first poll on, each call   *)
(*           of _poll_status in two steps: entered, returned               *)
(***************************************************************************)
EXTENDS Integers, Sequences, FiniteSets, TLC

\* ------------------------------------------------------------------ bounds
\* What the user lets pile up before acting again: idle callbacks queued,
\* dialogs open and delayed timers installed, a running worker counting for
\* the two callbacks it may queue.
MaxLoad == 4

VARIABLES
    \* ---- one indicator process (Spec)
    backend,          \* USE_APPINDICATOR: "appindicator" or "statusicon"
    running,          \* self.running
    persistent,       \* self.persistent
    item_toggle,      \* self.item_toggle: [exists, label, sensitive]
    item_persistent,  \* self.item_persistent: label ("" while no menu exists)
    item_status,      \* self.item_status: label
    icon,             \* the tray icon's name
    threads,          \* worker threads inside subprocess.run, per action
    idleQ,            \* callbacks queued with GLib.idle_add, oldest first
    timers,           \* GLib timeout sources calling _poll_status
    dialogs,          \* open modal dialogs, innermost last
    proc,             \* "main" or "exited"
    last,             \* history: what the latest step was and what it was given
    \* ---- two processes at start-up (SpecLock)
    pc,               \* each process's position in the module-level code
    display,          \* each process's DISPLAY / WAYLAND_DISPLAY presence
    lockHeld,         \* processes holding the exclusive flock on LOCK_FILE
    lockOpened,       \* processes that have LOCK_FILE open
    gui,              \* processes that have created a GUI object
    exitCode,         \* each process's exit code (-1 while alive)
    everPast,         \* history: processes that ever got past the flock
    \* ---- the calls of _poll_status (SpecPoll)
    polling           \* calls of _poll_status in progress: [trigger, thread]

uiVars == <<backend, running, persistent, item_toggle, item_persistent,
            item_status, icon, threads, idleQ, timers, dialogs, proc, last>>
lockVars == <<pc, display, lockHeld, lockOpened, gui, exitCode, everPast>>
callVars == <<polling>>
vars == <<uiVars, lockVars, callVars>>

\* ------------------------------------------------------- external results
\* What `camera-relay status --json` can do.  fields: whether the JSON object
\* carries the running / persistent keys.
StatusOutcomes ==
    { [kind |-> "timeout",   rc |-> 0, fields |-> FALSE, running |-> FALSE, persistent |-> FALSE],
      [kind |-> "notfound",  rc |-> 0, fields |-> FALSE, running |-> FALSE, persistent |-> FALSE],
      [kind |-> "nonjson",   rc |-> 1, fields |-> FALSE, running |-> FALSE, persistent |-> FALSE],
      [kind |-> "nonobject", rc |-> 0, fields |-> FALSE, running |-> FALSE, persistent |-> FALSE],
      [kind |-> "object",    rc |-> 0, fields |-> FALSE, running |-> FALSE, persistent |-> FALSE],
      [kind |-> "object",    rc |-> 0, fields |-> TRUE,  running |-> FALSE, persistent |-> FALSE],
      [kind |-> "object",    rc |-> 0, fields |-> TRUE,  running |-> TRUE,  persistent |-> FALSE],
      [kind |-> "object",    rc |-> 0, fields |-> TRUE,  running |-> FALSE, persistent |-> TRUE],
      [kind |-> "object",    rc |-> 1, fields |-> TRUE,  running |-> TRUE,  persistent |-> TRUE] }

\* What `camera-relay start|stop` can do within subprocess.run(timeout=15).
ActionOutcomes ==
    { [kind |-> "exit", rc |-> 0, stderr |-> "", stdout |-> ""],
      [kind |-> "exit", rc |-> 1, stderr |-> "boom\n", stdout |-> ""],
      [kind |-> "exit", rc |-> 2, stderr |-> "boom\n", stdout |-> ""],
      [kind |-> "exit", rc |-> 1, stderr |-> " ", stdout |-> "out"],
      [kind |-> "exit", rc |-> 1, stderr |-> "", stdout |-> ""],
      [kind |-> "timeout", rc |-> 0, stderr |-> "", stdout |-> ""],
      [kind |-> "exception", rc |-> 0, stderr |-> "", stdout |-> ""] }

\* str.strip() on the texts above
Strip(s) ==
    CASE s = "boom\n" -> "boom"
      [] s = " "      -> ""
      [] OTHER        -> s

\* ------------------------------------------------------------ _get_status
DefaultStatus == [isdict |-> TRUE, has |-> TRUE, running |-> FALSE, persistent |-> FALSE]

\* The value _get_status returns: the parsed document, or the default
\* dictionary for the three exceptions it catches.  The exit code is not read.
GetStatus(o) ==
    CASE o.kind \in {"timeout", "notfound", "nonjson"} -> DefaultStatus
      [] o.kind = "nonobject" ->
            [isdict |-> FALSE, has |-> FALSE, running |-> FALSE, persistent |-> FALSE]
      [] OTHER ->
            [isdict |-> TRUE, has |-> o.fields, running |-> o.running,
             persistent |-> o.persistent]

\* status.get(key, False)
StatusGet(status, key) ==
    IF ~status.has THEN FALSE
    ELSE IF key = "running" THEN status.running ELSE status.persistent

\* status.get on a value that is no dict raises AttributeError
PollRaises(o) == ~GetStatus(o).isdict

\* ------------------------------------------------------------ _poll_status
ToggleLabel(r) == IF r THEN "Stop Relay" ELSE "Start Relay"

PersistentLabel(p) == IF p THEN "Disable Persistent Mode" ELSE "Enable Persistent Mode"

\* mutant: the status line forgets the persistent suffix
StatusLineNoSuffix(r, p) == "Status: " \o (IF r THEN "RUNNING" ELSE "STOPPED")

StatusLine(r, p) ==
    "Status: " \o (IF r THEN "RUNNING" ELSE "STOPPED") \o (IF p THEN " (persistent)" ELSE "")

IconName(r) == IF r THEN "camera-video-symbolic" ELSE "camera-disabled-symbolic"

\* `return True  # keep polling`
PollStatusReturn == TRUE

\* The widgets and fields after one call of _poll_status that did not raise:
\* the labels are set only where hasattr(self, "item_...") holds.
PolledToggle(item, r) ==
    IF item.exists THEN [item EXCEPT !.label = ToggleLabel(r)] ELSE item

PolledPersistent(item, label, p) ==
    IF item.exists THEN PersistentLabel(p) ELSE label

PolledStatus(item, label, r, p) ==
    IF item.exists THEN StatusLine(r, p) ELSE label

\* One call of _poll_status with the status query doing o; then, when the
\* caller is _poll_status_once (once), set_sensitive(True).  A raise leaves
\* every field and widget as it was and skips the rest of the caller.
PollStatus(o, once) ==
    /\ last' = [op |-> "poll", out |-> o, raised |-> PollRaises(o)]
    /\ IF PollRaises(o)
       THEN UNCHANGED <<running, persistent, item_toggle, item_persistent,
                        item_status, icon>>
       ELSE LET r == StatusGet(GetStatus(o), "running")
                p == StatusGet(GetStatus(o), "persistent")
                t == PolledToggle(item_toggle, r)
            IN  /\ running' = r
                /\ persistent' = p
                /\ item_toggle' =
                     IF once /\ t.exists THEN [t EXCEPT !.sensitive = TRUE] ELSE t
                /\ item_persistent' = PolledPersistent(item_toggle, item_persistent, p)
                /\ item_status' = PolledStatus(item_toggle, item_status, r, p)
                /\ icon' = IconName(r)

\* A GLib source stays installed iff its callback returned True; a callback
\* that raised counts as having returned False.
KeepSource(raised, ret) == ~raised /\ ret

\* ------------------------------------------------------------- _build_menu
NoItem == [exists |-> FALSE, label |-> "", sensitive |-> FALSE]

BuildMenu ==
    [item_toggle     |-> [exists |-> TRUE, label |-> "Start Relay", sensitive |-> TRUE],
     item_persistent |-> "Enable Persistent Mode",
     item_status     |-> "Status: checking..."]

\* ---------------------------------------------------------------- helpers
Alive == proc = "main"

Actions == {"start", "stop"}

Other == [op |-> "other"]

\* worker threads still inside subprocess.run
Running == threads["start"] + threads["stop"]

Entries(fn) == {k \in 1 .. Len(idleQ) : idleQ[k].fn = fn}

\* start/stop actions dispatched whose completion callback has not run yet
InFlight == Running + Cardinality(Entries("_poll_status_once"))

\* what is pending: see MaxLoad
Load == 2 * Running + Len(idleQ) + Len(dialogs) + timers.fresh + timers.stale

Warnings == {k \in 1 .. Len(dialogs) : dialogs[k].kind = "warning"}

\* ---------------------------------------------------------------- timers
\* The four callers of _poll_status the event loop dispatches, each from the
\* call to its return, with what the return value does to the source.
\* GLib.timeout_add_seconds(POLL_INTERVAL, self._poll_status) fires.
PeriodicCall ==
    /\ Alive
    /\ timers.periodic
    /\ \E o \in StatusOutcomes :
         /\ PollStatus(o, FALSE)
         /\ timers' = [timers EXCEPT
                         !.periodic = KeepSource(PollRaises(o), PollStatusReturn)]
    /\ UNCHANGED <<backend, threads, idleQ, dialogs, proc, lockVars>>

\* GLib.timeout_add(1000, self._poll_status) fires for the first time.
DelayedFirstCall ==
    /\ Alive
    /\ timers.fresh > 0
    /\ \E o \in StatusOutcomes :
         /\ PollStatus(o, FALSE)
         /\ timers' = [timers EXCEPT
                         !.fresh = @ - 1,
                         !.stale = IF KeepSource(PollRaises(o), PollStatusReturn)
                                   THEN @ + 1 ELSE @]
    /\ UNCHANGED <<backend, threads, idleQ, dialogs, proc, lockVars>>

\* The same source fires again, having been kept.
DelayedAgainCall ==
    /\ Alive
    /\ timers.stale > 0
    /\ \E o \in StatusOutcomes :
         /\ PollStatus(o, FALSE)
         /\ timers' = [timers EXCEPT
                         !.stale = IF KeepSource(PollRaises(o), PollStatusReturn)
                                   THEN @ ELSE @ - 1]
    /\ UNCHANGED <<backend, threads, idleQ, dialogs, proc, lockVars>>

\* In Spec a call of _poll_status is one step.
PeriodicPoll == PeriodicCall /\ UNCHANGED callVars

DelayedPollFirst == DelayedFirstCall /\ UNCHANGED callVars

DelayedPollAgain == DelayedAgainCall /\ UNCHANGED callVars

\* ------------------------------------------------------------- _on_toggle
PendingLabel(r) == IF r THEN "Stopping..." ELSE "Starting..."

ActionFor(r) == IF r THEN "stop" ELSE "start"

\* The user activates the toggle item (only a sensitive item can be
\* activated): label and sensitivity change, the worker thread starts.
OnToggle ==
    /\ Alive
    /\ item_toggle.exists /\ item_toggle.sensitive
    /\ Load + 2 <= MaxLoad
    /\ threads' = [threads EXCEPT ![ActionFor(running)] = @ + 1]
    /\ item_toggle' = [item_toggle EXCEPT !.label = PendingLabel(running),
                                          !.sensitive = FALSE]
    /\ last' = Other
    /\ UNCHANGED <<backend, running, persistent, item_persistent, item_status,
                   icon, idleQ, timers, dialogs, proc, lockVars, callVars>>

\* ------------------------------------------------------------ _run_action
\* The text of the error the worker queues, or "" when it queues none.
ErrorMessage(action, o) ==
    CASE o.kind = "exit" /\ o.rc # 0 ->
            "Failed to " \o action \o " relay:\n\n" \o
            (IF Strip(o.stderr) # "" THEN Strip(o.stderr)
             ELSE IF Strip(o.stdout) # "" THEN Strip(o.stdout)
             ELSE "Unknown error")
      [] o.kind = "timeout"   -> "Timed out trying to " \o action \o " relay"
      [] o.kind = "exception" -> "Error: e"
      [] OTHER                -> ""

\* The callbacks the try/except block queues for an outcome.
QueuedErrors(action, o) ==
    IF ErrorMessage(action, o) = ""
    THEN <<>>
    ELSE <<[fn |-> "_show_error", msg |-> ErrorMessage(action, o)]>>

\* mutant: the re-poll is queued in the try block and again after it
QueuedRepollsTwice ==
    <<[fn |-> "_poll_status_once", msg |-> ""], [fn |-> "_poll_status_once", msg |-> ""]>>

\* The callback queued after the try/except block, for every outcome.
QueuedRepolls == <<[fn |-> "_poll_status_once", msg |-> ""]>>

\* mutant: the worker re-enables the toggle item itself
SettledToggleReenabled(t) == [t EXCEPT !.sensitive = TRUE]

\* The toggle item as the worker thread leaves it: as it found it.  No
\* statement of _run_action touches the item; set_sensitive(True) is in
\* _poll_status_once, which the worker hands to the event loop.
SettledToggle(t) == t

\* A worker's subprocess.run([RELAY_CMD, action], timeout=15) returns or
\* raises; the thread queues its callbacks and ends.  It starts no other
\* invocation.
RunAction(action) ==
    /\ Alive
    /\ threads[action] > 0
    /\ \E o \in ActionOutcomes :
         LET queued == QueuedErrors(action, o) \o QueuedRepolls
         IN  /\ idleQ' = idleQ \o queued
             /\ last' = [op |-> "settle", action |-> action, kind |-> o.kind,
                         rc |-> o.rc, queued |-> queued]
    /\ threads' = [threads EXCEPT ![action] = @ - 1]
    /\ item_toggle' = SettledToggle(item_toggle)
    /\ UNCHANGED <<backend, running, persistent, item_persistent,
                   item_status, icon, timers, dialogs, proc, lockVars, callVars>>

\* ------------------------------------------------- the idle queue, dialogs
\* The event loop (the main one or a dialog's nested one) runs the oldest
\* idle callback.
\* _show_error: the dialog opens and dialog.run() blocks the callback.  The
\* dialog's text is not kept: nothing reads it back.
ShowError ==
    /\ Alive
    /\ idleQ # <<>>
    /\ Head(idleQ).fn = "_show_error"
    /\ dialogs' = Append(dialogs, [kind |-> "error", flag |-> FALSE])
    /\ idleQ' = Tail(idleQ)
    /\ last' = Other
    /\ UNCHANGED <<backend, running, persistent, item_toggle, item_persistent,
                   item_status, icon, threads, timers, proc, lockVars, callVars>>

\* _poll_status_once: self._poll_status(), then set_sensitive(True).
OnceCall ==
    /\ Alive
    /\ idleQ # <<>>
    /\ Head(idleQ).fn = "_poll_status_once"
    /\ \E o \in StatusOutcomes : PollStatus(o, TRUE)
    /\ idleQ' = Tail(idleQ)
    /\ UNCHANGED <<backend, threads, timers, dialogs, proc, lockVars>>

PollStatusOnce == OnceCall /\ UNCHANGED callVars

\* mutant: the response of the confirmation dialog is not looked at
WarningCommandsAnyResponse(response) == <<"enable-persistent --yes">>

\* What _show_persistent_warning does after dialog.run() returned response:
\* the commands it spawns and the timers it adds.
WarningCommands(response) ==
    IF response = "OK" THEN <<"enable-persistent --yes">> ELSE <<>>

WarningTimers(response) == IF response = "OK" THEN 1 ELSE 0

\* The user answers the innermost dialog; dialog.run() returns and the
\* blocked handler finishes.
CloseDialog ==
    /\ Alive
    /\ dialogs # <<>>
    /\ LET top == dialogs[Len(dialogs)]
       IN  /\ dialogs' = SubSeq(dialogs, 1, Len(dialogs) - 1)
           /\ IF top.kind = "error"
              THEN /\ last' = Other
                   /\ UNCHANGED timers
              ELSE \E response \in {"OK", "CANCEL", "DELETE_EVENT"} :
                     /\ timers' = [timers EXCEPT
                                     !.fresh = @ + WarningTimers(response)]
                     /\ last' = [op |-> "persist", flag |-> top.flag,
                                 dialog |-> TRUE, response |-> response,
                                 cmds |-> WarningCommands(response),
                                 timers |-> WarningTimers(response)]
    /\ UNCHANGED <<backend, running, persistent, item_toggle, item_persistent,
                   item_status, icon, threads, idleQ, proc, lockVars, callVars>>

\* ---------------------------------------------------- _on_persistent_toggle
\* What the handler does at once for the stored flag: the commands spawned,
\* the timers added, whether the confirmation dialog is shown.
PersistentBranch(flag) ==
    IF flag
    THEN [cmds |-> <<"disable-persistent">>, timers |-> 1, dialog |-> FALSE]
    ELSE [cmds |-> <<>>, timers |-> 0, dialog |-> TRUE]

OnPersistentToggle ==
    /\ Alive
    /\ item_toggle.exists
    /\ Load + 1 <= MaxLoad
    /\ LET b == PersistentBranch(persistent)
       IN  IF b.dialog
           THEN /\ dialogs' = Append(dialogs,
                                [kind |-> "warning", flag |-> persistent])
                /\ last' = Other
                /\ UNCHANGED timers
           ELSE /\ timers' = [timers EXCEPT !.fresh = @ + b.timers]
                /\ last' = [op |-> "persist", flag |-> persistent,
                            dialog |-> FALSE, response |-> "none",
                            cmds |-> b.cmds, timers |-> b.timers]
                /\ UNCHANGED dialogs
    /\ UNCHANGED <<backend, running, persistent, item_toggle, item_persistent,
                   item_status, icon, threads, idleQ, proc, lockVars, callVars>>

\* ---------------------------------------------------- _on_status_icon_popup
\* Legacy backend: every popup builds a new menu and new items.
OnStatusIconPopup ==
    /\ Alive
    /\ backend = "statusicon"
    /\ item_toggle' = BuildMenu.item_toggle
    /\ item_persistent' = BuildMenu.item_persistent
    /\ item_status' = BuildMenu.item_status
    /\ last' = Other
    /\ UNCHANGED <<backend, running, persistent, icon, threads, idleQ, timers,
                   dialogs, proc, lockVars, callVars>>

\* ---------------------------------------------------------------- _on_quit
\* Gtk.main_quit() with no dialog open: Gtk.main() returns and the process,
\* its widgets, timers and daemon threads are gone.
OnQuit ==
    /\ Alive
    /\ dialogs = <<>>
    /\ proc' = "exited"
    /\ running' = FALSE
    /\ persistent' = FALSE
    /\ item_toggle' = NoItem
    /\ item_persistent' = ""
    /\ item_status' = ""
    /\ icon' = ""
    /\ threads' = [a \in Actions |-> 0]
    /\ idleQ' = <<>>
    /\ timers' = [periodic |-> FALSE, fresh |-> 0, stale |-> 0]
    /\ last' = Other
    /\ UNCHANGED <<backend, dialogs, lockVars, callVars>>

\* ------------------------------------------------------------------- Spec
Procs == {1, 2}

LockIdle ==
    /\ pc = [p \in Procs |-> "idle"]
    /\ display = [p \in Procs |-> FALSE]
    /\ lockHeld = {}
    /\ lockOpened = {}
    /\ gui = {}
    /\ exitCode = [p \in Procs |-> -1]
    /\ everPast = {}

\* The state CameraRelaySystray.__init__ leaves: the menu built (AppIndicator
\* only), the initial poll done without raising, the periodic timer added.
Init ==
    /\ backend \in {"appindicator", "statusicon"}
    /\ \E o \in {x \in StatusOutcomes : ~PollRaises(x)} :
         LET r == StatusGet(GetStatus(o), "running")
             p == StatusGet(GetStatus(o), "persistent")
             t == IF backend = "appindicator" THEN BuildMenu.item_toggle ELSE NoItem
         IN  /\ running = r
             /\ persistent = p
             /\ item_toggle = PolledToggle(t, r)
             /\ item_persistent =
                  PolledPersistent(t, IF t.exists THEN BuildMenu.item_persistent ELSE "", p)
             /\ item_status =
                  PolledStatus(t, IF t.exists THEN BuildMenu.item_status ELSE "", r, p)
             /\ icon = IconName(r)
             /\ last = [op |-> "poll", out |-> o, raised |-> FALSE]
    /\ threads = [a \in Actions |-> 0]
    /\ idleQ = <<>>
    /\ timers = [periodic |-> TRUE, fresh |-> 0, stale |-> 0]
    /\ dialogs = <<>>
    /\ proc = "main"
    /\ LockIdle
    /\ polling = <<>>

Next ==
    \/ PeriodicPoll
    \/ DelayedPollFirst
    \/ DelayedPollAgain
    \/ OnToggle
    \/ \E a \in Actions : RunAction(a)
    \/ ShowError
    \/ PollStatusOnce
    \/ CloseDialog
    \/ OnPersistentToggle
    \/ OnStatusIconPopup
    \/ OnQuit

Spec == Init /\ [][Next]_vars

\* --------------------------------------------------------------- SpecLock
\* The module-level code and the constructor, for two processes of one user
\* session (one LOCK_FILE path).

\* sys.exit(code), or the interpreter ending: the kernel closes the lock
\* file's descriptor, which releases the flock.
Exit(p, code) ==
    /\ pc' = [pc EXCEPT ![p] = "exited"]
    /\ exitCode' = [exitCode EXCEPT ![p] = code]
    /\ lockHeld' = lockHeld \ {p}
    /\ lockOpened' = lockOpened \ {p}

\* mutant: the lock file is opened and locked before the display is looked at
FirstStepLock == "open_lock"

\* The first statement after the imports of the standard library: the
\* display check.
FirstStep == "check_display"

\* The process is started, with or without a display in its environment.
Launch(p) ==
    /\ pc[p] = "idle"
    /\ \E d \in BOOLEAN : display' = [display EXCEPT ![p] = d]
    /\ pc' = [pc EXCEPT ![p] = FirstStep]
    /\ UNCHANGED <<lockHeld, lockOpened, gui, exitCode, everPast, uiVars, callVars>>

\* if not DISPLAY and not WAYLAND_DISPLAY: sys.exit(0)
CheckDisplay(p) ==
    /\ pc[p] = "check_display"
    /\ IF display[p]
       THEN /\ pc' = [pc EXCEPT ![p] = "open_lock"]
            /\ UNCHANGED <<lockHeld, lockOpened, exitCode>>
       ELSE Exit(p, 0)
    /\ UNCHANGED <<display, gui, everPast, uiVars, callVars>>

\* _lock_fd = open(LOCK_FILE, "w")
OpenLock(p) ==
    /\ pc[p] = "open_lock"
    /\ lockOpened' = lockOpened \cup {p}
    /\ pc' = [pc EXCEPT ![p] = "flock"]
    /\ UNCHANGED <<display, lockHeld, gui, exitCode, everPast, uiVars, callVars>>

\* mutant: the lock is not exclusive (LOCK_SH in place of LOCK_EX)
FlockShared(p) == TRUE

\* flock(LOCK_EX | LOCK_NB) succeeds iff no other open file holds the lock.
FlockSucceeds(p) == lockHeld \ {p} = {}

\* fcntl.flock(...); except OSError: sys.exit(0)
Flock(p) ==
    /\ pc[p] = "flock"
    /\ IF FlockSucceeds(p)
       THEN /\ lockHeld' = lockHeld \cup {p}
            /\ everPast' = everPast \cup {p}
            /\ pc' = [pc EXCEPT ![p] = "create_gui"]
            /\ UNCHANGED <<lockOpened, exitCode>>
       ELSE /\ Exit(p, 0)
            /\ UNCHANGED everPast
    /\ UNCHANGED <<display, gui, uiVars, callVars>>

\* import gi, Gtk; __init__ creates the indicator or the status icon.
CreateGui(p) ==
    /\ pc[p] = "create_gui"
    /\ gui' = gui \cup {p}
    /\ pc' = [pc EXCEPT ![p] = "init_poll"]
    /\ UNCHANGED <<display, lockHeld, lockOpened, exitCode, everPast, uiVars, callVars>>

\* self._poll_status() in __init__: a raise is not caught anywhere and ends
\* the process with a traceback.
InitPoll(p) ==
    /\ pc[p] = "init_poll"
    /\ \E o \in StatusOutcomes :
         IF PollRaises(o)
         THEN Exit(p, 1)
         ELSE /\ pc' = [pc EXCEPT ![p] = "add_timer"]
              /\ UNCHANGED <<lockHeld, lockOpened, exitCode>>
    /\ UNCHANGED <<display, gui, everPast, uiVars, callVars>>

\* GLib.timeout_add_seconds(POLL_INTERVAL, self._poll_status); Gtk.main()
AddTimer(p) ==
    /\ pc[p] = "add_timer"
    /\ pc' = [pc EXCEPT ![p] = "main"]
    /\ UNCHANGED <<display, lockHeld, lockOpened, gui, exitCode, everPast, uiVars, callVars>>

\* _on_quit: Gtk.main() returns and the module ends.
QuitProcess(p) ==
    /\ pc[p] = "main"
    /\ Exit(p, 0)
    /\ UNCHANGED <<display, gui, everPast, uiVars, callVars>>

\* The single-process variables are not used by SpecLock.
UiIdle ==
    /\ backend = "appindicator"
    /\ running = FALSE
    /\ persistent = FALSE
    /\ item_toggle = NoItem
    /\ item_persistent = ""
    /\ item_status = ""
    /\ icon = ""
    /\ threads = [a \in Actions |-> 0]
    /\ idleQ = <<>>
    /\ timers = [periodic |-> FALSE, fresh |-> 0, stale |-> 0]
    /\ dialogs = <<>>
    /\ proc = "exited"
    /\ last = Other

InitLock == UiIdle /\ LockIdle /\ polling = <<>>

NextLock ==
    \/ \E p \in Procs : Launch(p)
    \/ \E p \in Procs : CheckDisplay(p)
    \/ \E p \in Procs : OpenLock(p)
    \/ \E p \in Procs : Flock(p)
    \/ \E p \in Procs : CreateGui(p)
    \/ \E p \in Procs : InitPoll(p)
    \/ \E p \in Procs : AddTimer(p)
    \/ \E p \in Procs : QuitProcess(p)

SpecLock == InitLock /\ [][NextLock]_vars

\* --------------------------------------------------------------- SpecPoll
\* One process from the constructor's call of _poll_status on.  A call of
\* _poll_status is entered, blocks its thread in subprocess.run of
\* _get_status, and returns.

\* mutant: the worker calls self._poll_status_once() itself
CallerThreadDirect(trigger) == IF trigger = "once" THEN "worker" ELSE "main"

\* The thread a caller of _poll_status runs on.  The constructor runs on the
\* main thread; the timeout and idle sources are dispatched by the loop
\* that Gtk.main(), or a dialog.run() nested in it, iterates on the main
\* thread; _run_action hands _poll_status_once to GLib.idle_add.
CallerThread(trigger) == "main"

\* The main thread is inside a call of _poll_status: it iterates no loop, so
\* no source is dispatched and no signal handler runs.
MainBlocked == \E k \in 1 .. Len(polling) : polling[k].thread = "main"

InCall(trigger) == {k \in 1 .. Len(polling) : polling[k].trigger = trigger}

Leave(k) ==
    polling' = SubSeq(polling, 1, k - 1) \o SubSeq(polling, k + 1, Len(polling))

\* The source calling _poll_status for a trigger is installed and due.
Ready(trigger) ==
    CASE trigger = "periodic" -> timers.periodic
      [] trigger = "fresh"    -> timers.fresh > 0
      [] trigger = "stale"    -> timers.stale > 0
      [] trigger = "once"     -> idleQ # <<>> /\ Head(idleQ).fn = "_poll_status_once"
      [] OTHER                -> FALSE

\* A source is dispatched and its callback enters _poll_status.  A source
\* being dispatched is not dispatched again.
EnterPoll(trigger) ==
    /\ Alive
    /\ Ready(trigger)
    /\ InCall(trigger) = {}
    /\ CallerThread(trigger) = "main" => ~MainBlocked
    /\ polling' = Append(polling, [trigger |-> trigger,
                                   thread |-> CallerThread(trigger)])
    /\ last' = Other
    /\ UNCHANGED <<backend, running, persistent, item_toggle, item_persistent,
                   item_status, icon, threads, idleQ, timers, dialogs, proc,
                   lockVars>>

PeriodicReturn == \E k \in InCall("periodic") : PeriodicCall /\ Leave(k)

DelayedFirstReturn == \E k \in InCall("fresh") : DelayedFirstCall /\ Leave(k)

DelayedAgainReturn == \E k \in InCall("stale") : DelayedAgainCall /\ Leave(k)

OnceReturn == \E k \in InCall("once") : OnceCall /\ Leave(k)

\* self._poll_status() in __init__ returns and the periodic timer is added;
\* Gtk.main() follows.  A raise ends the process.
ConstructorReturn ==
    /\ proc = "init"
    /\ \E k \in InCall("init") : Leave(k)
    /\ \E o \in StatusOutcomes :
         /\ PollStatus(o, FALSE)
         /\ IF PollRaises(o)
            THEN proc' = "exited" /\ UNCHANGED timers
            ELSE proc' = "main" /\ timers' = [timers EXCEPT !.periodic = TRUE]
    /\ UNCHANGED <<backend, threads, idleQ, dialogs, lockVars>>

\* The signal handlers and the _show_error callback run when the main
\* thread iterates a loop.
LoopOnToggle == ~MainBlocked /\ OnToggle

LoopShowError == ~MainBlocked /\ ShowError

LoopCloseDialog == ~MainBlocked /\ CloseDialog

LoopOnPersistentToggle == ~MainBlocked /\ OnPersistentToggle

LoopOnStatusIconPopup == ~MainBlocked /\ OnStatusIconPopup

LoopOnQuit == ~MainBlocked /\ OnQuit

\* __init__ has built the indicator (and its menu) or the status icon and
\* is entering its own call of _poll_status.
InitCall ==
    /\ backend \in {"appindicator", "statusicon"}
    /\ running = FALSE
    /\ persistent = FALSE
    /\ item_toggle = (IF backend = "appindicator" THEN BuildMenu.item_toggle ELSE NoItem)
    /\ item_persistent = (IF backend = "appindicator" THEN BuildMenu.item_persistent ELSE "")
    /\ item_status = (IF backend = "appindicator" THEN BuildMenu.item_status ELSE "")
    /\ icon = "camera-video-symbolic"
    /\ threads = [a \in Actions |-> 0]
    /\ idleQ = <<>>
    /\ timers = [periodic |-> FALSE, fresh |-> 0, stale |-> 0]
    /\ dialogs = <<>>
    /\ proc = "init"
    /\ last = Other
    /\ LockIdle
    /\ polling = <<[trigger |-> "init", thread |-> CallerThread("init")]>>

NextPoll ==
    \/ ConstructorReturn
    \/ \E t \in {"periodic", "fresh", "stale", "once"} : EnterPoll(t)
    \/ PeriodicReturn
    \/ DelayedFirstReturn
    \/ DelayedAgainReturn
    \/ OnceReturn
    \/ LoopOnToggle
    \/ \E a \in Actions : RunAction(a)
    \/ LoopShowError
    \/ LoopCloseDialog
    \/ LoopOnPersistentToggle
    \/ LoopOnStatusIconPopup
    \/ LoopOnQuit

SpecPoll == InitCall /\ [][NextPoll]_vars

\* ------------------------------------------------------------------ claims

\* C1 (as claimed): once every dispatched start/stop action has had its
\* completion callback run, the toggle control is enabled again, whatever
\* the action's outcome and whatever the completion re-poll's status query
\* returned: no run leaves the control disabled with nothing left to
\* re-enable it.
C1_ToggleReenabled ==
    (Alive /\ item_toggle.exists /\ InFlight = 0) => item_toggle.sensitive

\* C2 (as claimed): between the activation of the toggle and the run of the
\* completion callback the toggle control offered to the user is disabled,
\* in both tray backends.
C2_DisabledWhileInFlight ==
    (Alive /\ item_toggle.exists /\ InFlight > 0) => ~item_toggle.sensitive

\* C3 (as claimed): while a start (stop) action's external invocation is in
\* progress the toggle's label is "Starting..." ("Stopping..."), whatever
\* timers fire in between.
C3_PendingLabelKept ==
    /\ threads["start"] > 0 => item_toggle.label = "Starting..."
    /\ threads["stop"] > 0 => item_toggle.label = "Stopping..."

\* C4: every worker that settles queues exactly one _poll_status_once, and
\* exactly one _show_error if the action failed (non-zero exit, timeout,
\* exception) and none if it exited 0, these being what it appended to the
\* idle queue; a timed-out start queues "Timed out trying to start relay";
\* no invocation is retried: a settling worker is gone, and a worker only
\* ever starts on an activation of the sensitive toggle item.
C4_SettleQueuesOnce ==
    /\ [](last.op = "settle" =>
            LET errs   == SelectSeq(last.queued, LAMBDA e : e.fn = "_show_error")
                polls  == SelectSeq(last.queued, LAMBDA e : e.fn = "_poll_status_once")
                failed == ~(last.kind = "exit" /\ last.rc = 0)
                n      == Len(last.queued)
            IN  /\ Len(polls) = 1
                /\ Len(errs) = (IF failed THEN 1 ELSE 0)
                /\ n = Len(errs) + Len(polls)
                /\ Len(idleQ) >= n
                /\ SubSeq(idleQ, Len(idleQ) - n + 1, Len(idleQ)) = last.queued
                /\ (last.kind = "timeout" /\ last.action = "start") =>
                      errs[1].msg = "Timed out trying to start relay")
    /\ [][/\ last'.op = "settle" => Running' = Running - 1
          /\ Running' > Running =>
               /\ Running' = Running + 1
               /\ item_toggle.sensitive /\ ~item_toggle'.sensitive]_vars

\* C4 witness: a start action has timed out and its callbacks are queued.
C4_Witness ==
    /\ last.op = "settle" /\ last.kind = "timeout" /\ last.action = "start"
    /\ Len(idleQ) >= 2

\* C5 (as claimed): after a status query that timed out, found no
\* executable, or printed something that is no JSON object, the poll has
\* not raised and the stored status is running = false, persistent = false.
C5_MalformedIsDefault ==
    (last.op = "poll" /\ last.out.kind \in {"timeout", "notfound", "nonjson", "nonobject"})
        => (~last.raised /\ running = FALSE /\ persistent = FALSE)

\* C6 (as claimed): after a poll whose status query exited with a non-zero
\* code the relay is taken as stopped: running = false and the presentation
\* is the stopped one, whatever the query printed.
C6_NonZeroExitIsStopped ==
    (last.op = "poll" /\ last.out.rc # 0)
        => /\ running = FALSE
           /\ icon = "camera-disabled-symbolic"
           /\ item_toggle.exists => item_toggle.label = "Start Relay"

\* C7 (as claimed): the 1000 ms timer a persistent-mode toggle schedules
\* polls once and is then gone: no delayed timer that has already fired is
\* still installed.
C7_DelayedTimerRunsOnce == timers.stale = 0

\* C8: a persistent-item activation is decided by the stored persistent
\* flag: with the flag set no confirmation dialog is shown and
\* disable-persistent is spawned exactly once; with it unset the
\* confirmation dialog is shown (the handler blocks in it, having spawned
\* nothing), and once answered enable-persistent --yes is spawned exactly
\* once for OK with one re-poll timer, and nothing is spawned and no timer
\* added for any other answer.
C8_PersistentGated ==
    /\ \A k \in Warnings : dialogs[k].flag = FALSE
    /\ last.op = "persist" =>
         /\ last.flag =>
              /\ ~last.dialog
              /\ last.cmds = <<"disable-persistent">>
              /\ last.timers = 1
         /\ ~last.flag =>
              /\ last.dialog
              /\ last.response = "OK" =>
                   (last.cmds = <<"enable-persistent --yes">> /\ last.timers = 1)
              /\ last.response # "OK" => (last.cmds = <<>> /\ last.timers = 0)

\* C8 witness: the confirmation dialog was cancelled.
C8_Witness ==
    last.op = "persist" /\ ~last.flag /\ last.dialog /\ last.response = "CANCEL"

\* still alive and past the flock
PastLock == {p \in Procs : pc[p] \in {"create_gui", "init_poll", "add_timer", "main"}}

\* C9 (as claimed): of two processes of one session at most one ever gets
\* past the lock acquisition.
C9_AtMostOneEver == Cardinality(everPast) <= 1

\* C9 (amended): at no time are two processes past the lock acquisition (so
\* at most one tray icon exists at a time); a process that fails to acquire
\* the lock exits with code 0 having created no GUI object; a process past
\* the acquisition holds the lock until it exits.
C9_AtMostOneAtATime ==
    /\ Cardinality(PastLock) <= 1
    /\ Cardinality({p \in gui : pc[p] # "exited"}) <= 1
    /\ \A p \in Procs :
         (pc[p] = "exited" /\ p \notin everPast) => (exitCode[p] = 0 /\ p \notin gui)
    /\ \A p \in PastLock : p \in lockHeld
    /\ \A p \in Procs : p \in lockHeld => pc[p] # "exited"

\* C9 witness: one process runs its main loop holding the lock and the
\* other, launched with a display, has failed to lock and exited.
C9_Witness ==
    \E p, q \in Procs :
        /\ pc[p] = "main" /\ p \in lockHeld
        /\ pc[q] = "exited" /\ display[q] /\ q \notin everPast

\* C10: right after a poll that completed, the icon and, where a menu
\* exists, the three labels are functions of the polled status alone.
C10_PresentationOfStatus ==
    (last.op = "poll" /\ ~last.raised) =>
        LET r == last.out.kind = "object" /\ last.out.fields /\ last.out.running
            p == last.out.kind = "object" /\ last.out.fields /\ last.out.persistent
        IN  /\ running = r /\ persistent = p
            /\ icon = (IF r THEN "camera-video-symbolic" ELSE "camera-disabled-symbolic")
            /\ item_toggle.exists =>
                 /\ item_toggle.label = (IF r THEN "Stop Relay" ELSE "Start Relay")
                 /\ item_persistent = (IF p THEN "Disable Persistent Mode"
                                            ELSE "Enable Persistent Mode")
                 /\ item_status =
                      (IF r THEN (IF p THEN "Status: RUNNING (persistent)"
                                       ELSE "Status: RUNNING")
                            ELSE (IF p THEN "Status: STOPPED (persistent)"
                                       ELSE "Status: STOPPED"))

\* C10 witness: a poll made after a start action found the relay running
\* and persistent, with a menu to show it in.
C10_Witness ==
    /\ last.op = "poll" /\ ~last.raised
    /\ last.out.running /\ last.out.persistent
    /\ item_toggle.exists /\ item_toggle.sensitive
    /\ item_status = "Status: RUNNING (persistent)"
    /\ timers.stale > 0

\* C11 (as claimed): nothing after start-up is fatal, the constructor's
\* initial poll included: whatever the status query returns, a process that
\* got as far as taking the lock ends only by the user's quit (exit code 0),
\* never with an error.
C11_NothingFatal ==
    \A p \in everPast : exitCode[p] \in {-1, 0}

\* C12: a worker thread's step, whatever the action's outcome, leaves
\* running, persistent, the three menu items, the icon, the open dialogs
\* and the timers as they were; all it does is end, having appended to the
\* idle queue callbacks that are _show_error or _poll_status_once.  (Every
\* other step of the model is a callback of the event-loop thread.)
C12_WorkerWritesNothing ==
    [][last'.op = "settle" =>
         /\ UNCHANGED <<running, persistent, item_toggle, item_persistent,
                        item_status, icon, dialogs, timers, proc>>
         /\ idleQ' = idleQ \o last'.queued
         /\ \A k \in 1 .. Len(last'.queued) :
              last'.queued[k].fn \in {"_show_error", "_poll_status_once"}
         /\ Running' = Running - 1]_vars

\* C12 witness: a stop action has failed with a non-zero exit code; its
\* worker has queued the error and the re-poll and the toggle item still
\* shows the pending label, disabled.
C12_Witness ==
    /\ last.op = "settle" /\ last.action = "stop"
    /\ last.kind = "exit" /\ last.rc # 0
    /\ running
    /\ item_toggle.label = "Stopping..." /\ ~item_toggle.sensitive
    /\ dialogs = <<>>

\* C13: at any moment at most one call of _poll_status is in progress,
\* whichever of its callers made it (the constructor, the periodic timer,
\* a delayed timer, the completion callback) and whether or not a dialog is
\* open or a worker is running.
C13_PollsNeverOverlap == Len(polling) <= 1

\* C13 witness: a delayed timer's call of _poll_status is in progress while
\* a dialog is open and a worker is running, the periodic timer being due
\* as well.
C13_Witness ==
    /\ InCall("stale") # {}
    /\ dialogs # <<>>
    /\ Running > 0
    /\ Ready("periodic")

\* C14 (as claimed): the error message queued for a start/stop action that
\* exited with a non-zero code is built from that exit code together with
\* the output text, so it tells the code: an exit with another non-zero
\* code would not have produced the same message.
C14_MessageCarriesExitCode ==
    (last.op = "settle" /\ last.kind = "exit" /\ last.rc # 0) =>
        \A o \in ActionOutcomes :
            (o.kind = "exit" /\ o.rc # 0 /\ o.rc # last.rc) =>
                ErrorMessage(last.action, o) # last.queued[1].msg

\* C15 (as claimed): under either tray backend at most one worker thread
\* started by _on_toggle is inside its external invocation, and at most one
\* start/stop action is short of its completion callback.
C15_OneActionInFlight == Running <= 1 /\ InFlight <= 1

\* C16 (as claimed): whenever the toggle item can be activated its label is
\* "Stop Relay" if the stored running flag is true and "Start Relay" if not,
\* so the action _on_toggle picks from the flag is the one the label names;
\* this for the indicator's menu and for a menu the status icon's popup has
\* built.
C16_LabelMatchesAction ==
    (Alive /\ item_toggle.exists /\ item_toggle.sensitive) =>
        /\ item_toggle.label = (IF running THEN "Stop Relay" ELSE "Start Relay")
        /\ ActionFor(running) = (IF item_toggle.label = "Stop Relay" THEN "stop"
                                                                      ELSE "start")

\* the steps of the start-up, each with the step that may follow it
StartupOrder ==
    { <<"idle", "check_display">>, <<"check_display", "open_lock">>,
      <<"open_lock", "flock">>, <<"flock", "create_gui">>,
      <<"create_gui", "init_poll">>, <<"init_poll", "add_timer">>,
      <<"add_timer", "main">> }

\* C17: a process launched without a display does nothing but the display
\* check and exits with code 0: it never has the lock file open, never
\* holds the lock (so it never makes another process's flock fail), never
\* creates a GUI object.  For every process the start-up runs in the order
\* display check, open and lock, GUI creation, initial poll, periodic
\* timer: each step follows the one before it or the process exits.
C17_DisplayCheckedFirst ==
    /\ [](\A p \in Procs :
            /\ (~display[p] /\ pc[p] # "idle") =>
                 /\ pc[p] \in {"check_display", "exited"}
                 /\ pc[p] = "exited" => exitCode[p] = 0
            /\ ~display[p] =>
                 p \notin (lockOpened \cup lockHeld \cup everPast \cup gui)
            /\ p \in lockHeld => p \in lockOpened
            /\ p \in gui => p \in everPast
            /\ pc[p] \in {"init_poll", "add_timer", "main"} => p \in gui)
    /\ [][\A p \in Procs :
            pc'[p] # pc[p] =>
                \/ <<pc[p], pc'[p]>> \in StartupOrder
                \/ pc'[p] = "exited" /\ pc[p] \in {"check_display", "flock",
                                                    "init_poll", "main"}]_vars

\* C17 witness: one process, launched without a display, has exited with
\* code 0 and the other runs its main loop holding the lock.
C17_Witness ==
    \E p, q \in Procs :
        /\ ~display[p] /\ pc[p] = "exited" /\ exitCode[p] = 0
        /\ pc[q] = "main" /\ q \in lockHeld

====
